---- MODULE Spec2Model ----
(***************************************************************************)
(* The Mergington High School activities API (src/src/app.py) over its     *)
(* two tables (src/src/models.py), as a state machine.                     *)
(*                                                                         *)
(* The store is the two tables `activity` and `participant`.  Every        *)
(* handler opens a session of its own (db.py get_session) and runs its     *)
(* queries one after the other; each query and each commit is one step on  *)
(* the committed tables, and the steps of requests served by different     *)
(* threads of the server interleave.                                       *)
(***************************************************************************)
EXTENDS Integers, Sequences, FiniteSets, TLC

(***************************************************************************)
(* Bounds of the model.                                                    *)
(***************************************************************************)
\* Participant rows inserted by sign-ups on top of the rows a run starts with.
MaxNewRows == 2

\* The threads of the server's pool that serve requests concurrently.
Workers == {"t1", "t2"}

\* Python's None where an int is expected (max_participants is
\* Optional[int], models.py:18): no capacity is set.
None == -1

(***************************************************************************)
(* app.py:27-82: the legacy table, in the order of the dict.               *)
(***************************************************************************)
legacy_activities ==
  << [name |-> "Chess Club",
      description |-> "Learn strategies and compete in chess tournaments",
      schedule |-> "Fridays, 3:30 PM - 5:00 PM",
      max_participants |-> 12,
      participants |-> <<"michael@mergington.edu", "daniel@mergington.edu">>],
     [name |-> "Programming Class",
      description |-> "Learn programming fundamentals and build software projects",
      schedule |-> "Tuesdays and Thursdays, 3:30 PM - 4:30 PM",
      max_participants |-> 20,
      participants |-> <<"emma@mergington.edu", "sophia@mergington.edu">>],
     [name |-> "Gym Class",
      description |-> "Physical education and sports activities",
      schedule |-> "Mondays, Wednesdays, Fridays, 2:00 PM - 3:00 PM",
      max_participants |-> 30,
      participants |-> <<"john@mergington.edu", "olivia@mergington.edu">>],
     [name |-> "Soccer Team",
      description |-> "Join the school soccer team and compete in matches",
      schedule |-> "Tuesdays and Thursdays, 4:00 PM - 5:30 PM",
      max_participants |-> 22,
      participants |-> <<"liam@mergington.edu", "noah@mergington.edu">>],
     [name |-> "Basketball Team",
      description |-> "Practice and play basketball with the school team",
      schedule |-> "Wednesdays and Fridays, 3:30 PM - 5:00 PM",
      max_participants |-> 15,
      participants |-> <<"ava@mergington.edu", "mia@mergington.edu">>],
     [name |-> "Art Club",
      description |-> "Explore your creativity through painting and drawing",
      schedule |-> "Thursdays, 3:30 PM - 5:00 PM",
      max_participants |-> 15,
      participants |-> <<"amelia@mergington.edu", "harper@mergington.edu">>],
     [name |-> "Drama Club",
      description |-> "Act, direct, and produce plays and performances",
      schedule |-> "Mondays and Wednesdays, 4:00 PM - 5:30 PM",
      max_participants |-> 20,
      participants |-> <<"ella@mergington.edu", "scarlett@mergington.edu">>],
     [name |-> "Math Club",
      description |-> "Solve challenging problems and participate in math competitions",
      schedule |-> "Tuesdays, 3:30 PM - 4:30 PM",
      max_participants |-> 10,
      participants |-> <<"james@mergington.edu", "benjamin@mergington.edu">>],
     [name |-> "Debate Team",
      description |-> "Develop public speaking and argumentation skills",
      schedule |-> "Fridays, 4:00 PM - 5:30 PM",
      max_participants |-> 12,
      participants |-> <<"charlotte@mergington.edu", "henry@mergington.edu">>] >>

(***************************************************************************)
(* The requests the model sends: the path segment {activity_name} and the  *)
(* query parameter email of the two mutating endpoints.                    *)
(***************************************************************************)
\* The seeded activity with the smallest capacity, a second seeded activity,
\* and a name no stored activity has; an email seeded into Math Club and an
\* email seeded nowhere.
Requests ==
  { <<"Math Club", "james@mergington.edu">>, <<"Math Club", "new@mergington.edu">>,
    <<"Chess Club", "new@mergington.edu">>,
    <<"Knitting Club", "james@mergington.edu">>, <<"Knitting Club", "new@mergington.edu">> }
Operations == {"signup", "unregister"}

\* Students who signed up for Math Club in earlier runs of the server; the
\* model sends no request with their emails.
EarlierStudents ==
  << "s1@mergington.edu", "s2@mergington.edu", "s3@mergington.edu",
     "s4@mergington.edu", "s5@mergington.edu", "s6@mergington.edu",
     "s7@mergington.edu", "s8@mergington.edu" >>

VARIABLES
  activity,      \* table activity: rows [id, name, description, schedule, max_participants]
  participant,   \* table participant: rows [id, email, activity_id]
  started,       \* the startup event has run, the server serves requests
  pc,            \* per thread: the statement of the handler it runs next
  op,            \* per thread: the endpoint of its request
  activity_name, \* per thread: path parameter
  email,         \* per thread: query parameter
  found,         \* per thread: the handler's local `activity`
  target,        \* per thread: unregister's local `participant`
  response,      \* per thread: the status the request ended with
  trip           \* history: a sign-up and the unregister that follows it alone

vars == <<activity, participant, started, pc, op, activity_name, email,
          found, target, response, trip>>

store == <<activity, participant>>

\* A local that holds no row (None).
NoRow == [id |-> 0]

Max(S) == IF S = {} THEN 0 ELSE CHOOSE x \in S : \A y \in S : y <= x

\* The id the store gives a row inserted with id None: an INTEGER PRIMARY KEY
\* of the default SQLite store (db.py:7) is one more than the largest id in
\* the table.
NextId(table) == Max({r.id : r \in table}) + 1

(***************************************************************************)
(* The query layer, by what each call of the handlers asks of the store.   *)
(***************************************************************************)
\* select(Activity).where(Activity.name == name)
select_activity(name) == {a \in activity : a.name = name}

\* select(Participant).where(Participant.activity_id == id, Participant.email == e)
select_participant(id, e) ==
  {p \in participant : p.activity_id = id /\ p.email = e}

\* select(Participant).where(Participant.activity_id == id)
select_participants(id) == {p \in participant : p.activity_id = id}

\* A lookup that takes the first row where one_or_none raises (Result.first()).
first_or_none(rows) ==
  IF rows = {} THEN [tag |-> "None"]
  ELSE [tag |-> "row", row |-> CHOOSE r \in rows : \A q \in rows : r.id <= q.id]

\* Result.one_or_none(): None on no row, the row on exactly one, and the
\* exception MultipleResultsFound on more than one.
one_or_none(rows) ==
  IF rows = {} THEN [tag |-> "None"]
  ELSE IF Cardinality(rows) = 1
       THEN [tag |-> "row", row |-> CHOOSE r \in rows : TRUE]
       ELSE [tag |-> "MultipleResultsFound"]

\* app.py:123, session.exec(...).count(): the handler means the number of
\* rows selected.  The object exec() returns is the ORM's result object, and
\* the call comes back with that number only if that object offers count()
\* with no argument; otherwise the attribute lookup raises AttributeError.
\* The source pins no ORM version, so both outcomes are kept.
count(rows) ==
  { [raised |-> FALSE, n |-> Cardinality(rows)],
    [raised |-> TRUE, n |-> 0] }

\* session.add(Participant(email=e, activity_id=id)); session.commit()
add_participant(table, e, id) ==
  table \cup {[id |-> NextId(table), email |-> e, activity_id |-> id]}

\* A delete by the email alone, whatever the activity.
delete_participant_by_email(table, row) == {p \in table : p.email # row.email}

\* session.delete(row); session.commit(): DELETE ... WHERE participant.id = row.id
delete_participant(table, row) == {p \in table : p.id # row.id}

(***************************************************************************)
(* app.py:151-168 on_startup: the migration of the legacy table.           *)
(***************************************************************************)
RECURSIVE add_participants(_, _, _, _)
\* app.py:165-168: the rows of one payload's participants, from the k-th on.
add_participants(emails, k, id, table) ==
  IF k > Len(emails) THEN table
  ELSE add_participants(emails, k + 1, id, add_participant(table, emails[k], id))

RECURSIVE migrate(_, _, _)
\* app.py:160-168: the loop over _legacy_activities.items(), from the i-th on.
migrate(i, acts, parts) ==
  IF i > Len(legacy_activities) THEN <<acts, parts>>
  ELSE LET payload == legacy_activities[i]
           a == [id |-> NextId(acts),
                 name |-> payload.name,
                 description |-> payload.description,
                 schedule |-> payload.schedule,
                 max_participants |-> payload.max_participants]
       IN migrate(i + 1, acts \cup {a},
                  add_participants(payload.participants, 1, a.id, parts))

\* The store a first startup leaves.
Seeded == migrate(1, {}, {})

MathClub == CHOOSE a \in Seeded[1] : a.name = "Math Club"

\* The store an earlier run left: the seed, and Math Club filled to its
\* capacity by the sign-ups of that run.
EarlierStore ==
  <<Seeded[1],
    add_participants(
      SubSeq(EarlierStudents, 1,
             MathClub.max_participants - Cardinality({p \in Seeded[2] : p.activity_id = MathClub.id})),
      1, MathClub.id, Seeded[2])>>

\* The rows a run starts with once it serves: the seed and the earlier students.
InitialRows ==
  Cardinality(Seeded[2])
    + Cardinality({p \in participant :
                     \E j \in 1..Len(EarlierStudents) : p.email = EarlierStudents[j]})

(***************************************************************************)
(* app.py:90-106 get_activities: every activity with its participants'     *)
(* emails, both in the order of the store (by id).                         *)
(***************************************************************************)
RECURSIVE all(_)
\* Result.all(): the rows as a list.
all(rows) ==
  IF rows = {} THEN <<>>
  ELSE LET first == CHOOSE r \in rows : \A q \in rows : r.id <= q.id
       IN <<first>> \o all(rows \ {first})

\* The body of get_activities on the tables as the session reads them.
listing(activities, participants) ==
  LET rows == all(activities) IN
  [i \in 1..Len(rows) |->
     LET a == rows[i]
         ps == all({p \in participants : p.activity_id = a.id})
     IN [id |-> a.id,
         name |-> a.name,
         description |-> a.description,
         schedule |-> a.schedule,
         max_participants |-> a.max_participants,
         participants |-> [k \in 1..Len(ps) |-> ps[k].email]]]

get_activities == listing(activity, participant)

(***************************************************************************)
(* History of a round trip: a sign-up issued while no other request is in  *)
(* flight, and the unregister of the same activity and email issued right  *)
(* after it, with no other request in between.  It records what the        *)
(* requests did and changes nothing the handlers read.                     *)
(***************************************************************************)
NoTrip == [phase |-> "none"]

\* The set of participant emails of every stored activity.
EmailSets ==
  [id \in {a.id : a \in activity} |->
     {p.email : p \in {q \in participant : q.activity_id = id}}]

\* The email has a row in an activity of that name.
SignedUp(name, e) ==
  \E a \in activity, p \in participant :
    a.name = name /\ p.activity_id = a.id /\ p.email = e

TripRequest(w) ==
  trip' =
    IF \A v \in Workers : pc[v] = "idle"
    THEN IF op'[w] = "signup"
         THEN [phase |-> "signup", name |-> activity_name'[w], email |-> email'[w],
               before |-> EmailSets,
               had |-> SignedUp(activity_name'[w], email'[w]),
               signup |-> ""]
         ELSE IF /\ trip.phase = "signed"
                 /\ trip.name = activity_name'[w]
                 /\ trip.email = email'[w]
              THEN [trip EXCEPT !.phase = "unregister"]
              ELSE NoTrip
    ELSE NoTrip

TripRespond(w) ==
  trip' =
    IF trip.phase = "signup"
    THEN [trip EXCEPT !.phase = "signed", !.signup = response[w]]
    ELSE NoTrip

(***************************************************************************)
(* Init: a new store file, or the store an earlier run left; no request.   *)
(***************************************************************************)
InitialStores == {<<{}, {}>>, EarlierStore}

Init ==
  /\ \E s \in InitialStores : activity = s[1] /\ participant = s[2]
  /\ started = FALSE
  /\ pc = [w \in Workers |-> "idle"]
  /\ op = [w \in Workers |-> ""]
  /\ activity_name = [w \in Workers |-> ""]
  /\ email = [w \in Workers |-> ""]
  /\ found = [w \in Workers |-> NoRow]
  /\ target = [w \in Workers |-> NoRow]
  /\ response = [w \in Workers |-> ""]
  /\ trip = NoTrip

\* A startup that migrates the legacy table without looking at the store.
on_startup_unconditional ==
  /\ \A w \in Workers : pc[w] = "idle"
  /\ started' = TRUE
  /\ activity' = migrate(1, activity, participant)[1]
  /\ participant' = migrate(1, activity, participant)[2]
  /\ UNCHANGED <<pc, op, activity_name, email, found, target, response>>

\* app.py:151-168.  The startup event runs before the server serves.
on_startup ==
  /\ \A w \in Workers : pc[w] = "idle"
  /\ started' = TRUE
  /\ IF activity = {}
     THEN /\ activity' = migrate(1, activity, participant)[1]
          /\ participant' = migrate(1, activity, participant)[2]
     ELSE UNCHANGED <<activity, participant>>
  /\ UNCHANGED <<pc, op, activity_name, email, found, target, response>>

(***************************************************************************)
(* The two mutating handlers, statement by statement.                      *)
(***************************************************************************)
\* The server hands a request to an idle thread.
Request(w) ==
  /\ started
  /\ pc[w] = "idle"
  /\ \E o \in Operations, r \in Requests :
       /\ op' = [op EXCEPT ![w] = o]
       /\ activity_name' = [activity_name EXCEPT ![w] = r[1]]
       /\ email' = [email EXCEPT ![w] = r[2]]
  /\ pc' = [pc EXCEPT ![w] = "activity"]
  /\ UNCHANGED <<activity, participant, started, found, target, response>>

\* The handler leaves with an HTTPException, an unhandled exception or its
\* return value; the session and the locals go.
Finish(w, status) ==
  /\ pc' = [pc EXCEPT ![w] = "done"]
  /\ response' = [response EXCEPT ![w] = status]
  /\ found' = [found EXCEPT ![w] = NoRow]
  /\ target' = [target EXCEPT ![w] = NoRow]

\* The handler goes on to its next statement.
Goto(w, label) ==
  /\ pc' = [pc EXCEPT ![w] = label]
  /\ UNCHANGED response

\* A lookup without the 404: with no activity of that name the handler goes
\* on with the first activity of the table.
lookup_activity_unchecked(w, next) ==
  LET r == one_or_none(select_activity(activity_name[w])) IN
  /\ activity # {}
  /\ IF r.tag = "MultipleResultsFound" THEN Finish(w, "500")
     ELSE /\ Goto(w, next)
          /\ found' = [found EXCEPT ![w] =
                         IF r.tag = "row" THEN r.row
                         ELSE CHOOSE a \in activity : \A b \in activity : a.id <= b.id]
          /\ UNCHANGED target
  /\ UNCHANGED <<activity, participant, started, op, activity_name, email>>

\* app.py:113-115 and app.py:138-140: the activity of that name, or 404.
lookup_activity(w, next) ==
  LET r == one_or_none(select_activity(activity_name[w])) IN
  /\ IF r.tag = "None" THEN Finish(w, "404 Activity not found")
     ELSE IF r.tag = "MultipleResultsFound" THEN Finish(w, "500")
     ELSE /\ Goto(w, next)
          /\ found' = [found EXCEPT ![w] = r.row]
          /\ UNCHANGED target
  /\ UNCHANGED <<activity, participant, started, op, activity_name, email>>

\* app.py:113-115
signup_lookup_activity(w) ==
  /\ pc[w] = "activity" /\ op[w] = "signup"
  /\ lookup_activity(w, "current")

\* app.py:117-119
signup_check_current(w) ==
  /\ pc[w] = "current"
  /\ LET r == one_or_none(select_participant(found[w].id, email[w])) IN
       IF r.tag = "MultipleResultsFound" THEN Finish(w, "500")
       ELSE IF r.tag = "row" THEN Finish(w, "400 Student is already signed up")
       ELSE Goto(w, "capacity") /\ UNCHANGED <<found, target>>
  /\ UNCHANGED <<activity, participant, started, op, activity_name, email>>

\* app.py:121-125
signup_check_capacity(w) ==
  /\ pc[w] = "capacity"
  /\ IF found[w].max_participants = None
     THEN Goto(w, "add") /\ UNCHANGED <<found, target>>
     ELSE \E c \in count(select_participants(found[w].id)) :
            IF c.raised THEN Finish(w, "500")
            ELSE IF c.n >= found[w].max_participants
                 THEN Finish(w, "400 Activity is full")
                 ELSE Goto(w, "add") /\ UNCHANGED <<found, target>>
  /\ UNCHANGED <<activity, participant, started, op, activity_name, email>>

\* An insert that checks the table again in the step that commits.
signup_add_commit_rechecked(w) ==
  /\ pc[w] = "add"
  /\ NextId(participant) <= InitialRows + MaxNewRows
  /\ IF select_participant(found[w].id, email[w]) # {}
     THEN Finish(w, "400 Student is already signed up") /\ UNCHANGED participant
     ELSE IF /\ found[w].max_participants # None
             /\ Cardinality(select_participants(found[w].id)) >= found[w].max_participants
          THEN Finish(w, "400 Activity is full") /\ UNCHANGED participant
          ELSE /\ participant' = add_participant(participant, email[w], found[w].id)
               /\ Finish(w, "200")
  /\ UNCHANGED <<activity, started, op, activity_name, email>>

\* app.py:127-131
signup_add_commit(w) ==
  /\ pc[w] = "add"
  /\ NextId(participant) <= InitialRows + MaxNewRows
  /\ participant' = add_participant(participant, email[w], found[w].id)
  /\ Finish(w, "200")
  /\ UNCHANGED <<activity, started, op, activity_name, email>>

\* app.py:138-140
unregister_lookup_activity(w) ==
  /\ pc[w] = "activity" /\ op[w] = "unregister"
  /\ lookup_activity(w, "participant")

\* app.py:142-144
unregister_lookup_participant(w) ==
  /\ pc[w] = "participant"
  /\ LET r == one_or_none(select_participant(found[w].id, email[w])) IN
       IF r.tag = "MultipleResultsFound" THEN Finish(w, "500")
       ELSE IF r.tag = "None"
            THEN Finish(w, "400 Student is not signed up for this activity")
            ELSE /\ Goto(w, "delete")
                 /\ target' = [target EXCEPT ![w] = r.row]
                 /\ UNCHANGED found
  /\ UNCHANGED <<activity, participant, started, op, activity_name, email>>

\* app.py:146-148
unregister_delete_commit(w) ==
  /\ pc[w] = "delete"
  /\ participant' = delete_participant(participant, target[w])
  /\ Finish(w, "200")
  /\ UNCHANGED <<activity, started, op, activity_name, email>>

\* The response is sent and the thread is free again.
Respond(w) ==
  /\ pc[w] = "done"
  /\ pc' = [pc EXCEPT ![w] = "idle"]
  /\ op' = [op EXCEPT ![w] = ""]
  /\ activity_name' = [activity_name EXCEPT ![w] = ""]
  /\ email' = [email EXCEPT ![w] = ""]
  /\ response' = [response EXCEPT ![w] = ""]
  /\ UNCHANGED <<activity, participant, started, found, target>>

\* The steps of the handlers of thread w, each with what it adds to the
\* history.
Handle(w) ==
  \/ signup_lookup_activity(w) /\ UNCHANGED trip
  \/ signup_check_current(w) /\ UNCHANGED trip
  \/ signup_check_capacity(w) /\ UNCHANGED trip
  \/ signup_add_commit(w) /\ UNCHANGED trip
  \/ unregister_lookup_activity(w) /\ UNCHANGED trip
  \/ unregister_lookup_participant(w) /\ UNCHANGED trip
  \/ unregister_delete_commit(w) /\ UNCHANGED trip
  \/ Respond(w) /\ TripRespond(w)

\* Two threads serve all the requests of the model.
Next ==
  \/ on_startup /\ UNCHANGED trip
  \/ \E w \in Workers :
       \/ Request(w) /\ TripRequest(w)
       \/ Handle(w)

Spec == Init /\ [][Next]_vars


(***************************************************************************)
(* The properties.  Each is stated on the tables and on the threads'       *)
(* program counters, not through the operators of the handlers.            *)
(***************************************************************************)
\* Thread w takes the step.
Moved(w) == pc'[w] # pc[w]

\* The Participant rows of an activity id, and those of one email in it.
RowsOf(id) == {p \in participant : p.activity_id = id}
RowsFor(id, e) == {p \in participant : p.activity_id = id /\ p.email = e}

\* The pairs (activity id, email) that hold two or more rows.
Duplicated(id, e) == Cardinality(RowsFor(id, e)) >= 2

SignupCapacityContract ==
  [][\A w \in Workers :
       /\ ( /\ pc[w] = "capacity" /\ Moved(w)
            /\ found[w].max_participants # None
            /\ RowsFor(found[w].id, email[w]) = {} )
          => /\ Cardinality(RowsOf(found[w].id)) = found[w].max_participants
                  => /\ response'[w] = "400 Activity is full"
                     /\ participant' = participant
             /\ Cardinality(RowsOf(found[w].id)) < found[w].max_participants
                  => pc'[w] = "add"
       /\ (pc[w] = "add" /\ Moved(w))
          => /\ response'[w] = "200"
             /\ activity' = activity
             /\ \E r \in participant' :
                  /\ r \notin participant
                  /\ participant' = participant \cup {r}
                  /\ r.email = email[w]
                  /\ r.activity_id = found[w].id
     ]_vars

UnknownActivityIsNotFound ==
  [][\A w \in Workers :
       /\ ( /\ pc[w] = "activity" /\ Moved(w)
            /\ \A a \in activity : a.name # activity_name[w] )
          => /\ pc'[w] = "done"
             /\ response'[w] = "404 Activity not found"
             /\ activity' = activity
             /\ participant' = participant
       /\ (pc[w] = "done" /\ Moved(w))
          => activity' = activity /\ participant' = participant
     ]_vars

\* Reached: a sign-up and an unregister, with different emails, both
\* answered 404.
UnknownActivityAnswered ==
  \E w, v \in Workers :
    /\ pc[w] = "done" /\ op[w] = "signup"
    /\ pc[v] = "done" /\ op[v] = "unregister"
    /\ response[w] = "404 Activity not found"
    /\ response[v] = "404 Activity not found"
    /\ email[w] # email[v]
    /\ \A a \in activity : a.name # activity_name[w] /\ a.name # activity_name[v]

\* C7 as stated: after a sign-up and then an unregister of the same activity
\* and email, with no other request in between, every activity has the
\* participant emails it had before the sign-up, for any email.
RoundTripRestoresAnyEmail ==
  \A w \in Workers :
    (trip.phase = "unregister" /\ pc[w] = "done") => EmailSets = trip.before

\* C7 as amended: the same, for an email that had no row in that activity
\* when the sign-up was issued.
RoundTripRestoresNewEmail ==
  \A w \in Workers :
    (trip.phase = "unregister" /\ pc[w] = "done" /\ ~trip.had)
      => EmailSets = trip.before

\* Reached: a sign-up of a new email answered 200, and the unregister that
\* follows it answered 200.
RoundTripDone ==
  \E w \in Workers :
    /\ trip.phase = "unregister" /\ ~trip.had /\ trip.signup = "200"
    /\ pc[w] = "done" /\ response[w] = "200"

\* What get_activities returns after a first startup on an empty store: the
\* nine legacy activities, each with its two legacy emails.
FreshListing ==
  [i \in 1..Len(legacy_activities) |->
     [id |-> i,
      name |-> legacy_activities[i].name,
      description |-> legacy_activities[i].description,
      schedule |-> legacy_activities[i].schedule,
      max_participants |-> legacy_activities[i].max_participants,
      participants |-> legacy_activities[i].participants]]

\* C8: a startup on an empty activity table leaves the store that lists as
\* the nine legacy activities with their two emails each; a startup on a
\* store with an activity changes no row; and no step of any request or
\* restart changes the activity table once it holds a row.
StartupSeedsOnlyAnEmptyStore ==
  [][/\ (activity = {} /\ started')
          => /\ listing(activity', participant') = FreshListing
             /\ Cardinality(activity') = 9
             /\ Cardinality(participant') = 18
     /\ activity # {} => activity' = activity
     /\ (activity # {} /\ \A w \in Workers : pc'[w] = pc[w])
          => participant' = participant
    ]_vars

\* Reached: a run that seeded an empty store, then saw a sign-up and the
\* unregister of a seeded email, and in which a restart can now happen.
RestartAfterChanges ==
  /\ started
  /\ \A w \in Workers : pc[w] = "idle"
  /\ Len(get_activities) = 9
  /\ \A p \in participant, j \in 1..Len(EarlierStudents) : p.email # EarlierStudents[j]
  /\ \E p \in participant : p.email = "new@mergington.edu"
  /\ \A p \in participant : p.email # "james@mergington.edu"

RequestPairs ==
  {<<x[1].id, x[2][2]>> : x \in {y \in Seeded[1] \X Requests : y[1].name = y[2][1]}}

====
